---- MODULE Spec2Model ----
(***************************************************************************)
(* Execution graph of DeepAgent (src/src/deepagent/agent.py): the stages   *)
(* planner, researcher, summarizer, executor, tools, critic and finalizer, *)
(* the router predicates between them, the AgentState channels merged by   *)
(* the graph driver after every stage, and the traversal ceiling.          *)
(***************************************************************************)
EXTENDS Integers, Sequences, FiniteSets, TLC

VARIABLES
    pc,            \* the node or router predicate the driver runs next
    messages,      \* AgentState.messages (channel with reducer merge_messages)
    plan,          \* AgentState.plan (last-write-wins channel)
    scratch,       \* AgentState.scratch (last-write-wins channel)
    human_query,   \* DeepAgent.human_query, set by invoke
    plan_output,   \* what the oracle answered to the planner's structured call
    visits,        \* stage visits (supersteps) of the turn so far
    trace,         \* the stages visited in the turn, in order
    investigated,  \* the step indices read by Plan.next_step, in order
    error,         \* how the turn failed, "none" while it has not
    prev,          \* messages, plan and scratch when the last stage visit began
    update,        \* the value a writer hands to the messages channel (right)
    spotify,       \* a call of SpotifyManager.add_tracks_to_playlist in progress
    events,        \* the driver's event stream of the turn (astream_events)
    chunks,        \* the Chunks invoke has yielded to its caller, in order
    consuming      \* the caller is still iterating over the generator of invoke

vars == <<pc, messages, plan, scratch, human_query, plan_output, visits, trace,
          investigated, error, prev, update, spotify, events, chunks, consuming>>

----------------------------------------------------------------------------
\* Bounds of the model.

\* longest plan the oracle proposes
MaxSteps == 2

\* largest current_step the oracle puts in its structured output
MaxCursor == 3

\* most tool-invocation requests in one oracle response
MaxCalls == 2

\* most tool rounds the oracle asks for in a turn
MaxToolRounds == 2

\* the token fragments the oracle streams on each of its calls
MaxFragments == 1

\* most Chunks the caller takes before it may stop iterating
MaxTaken == 2

\* the graph driver's own recursion limit, used when the run configuration
\* has no "recursion_limit" entry (25 in the library; kept small here so
\* that the histories, which double on a visit, stay small)
DEFAULT_RECURSION_LIMIT == 12

----------------------------------------------------------------------------
\* Program constants.

\* agent.py:62  "recursionLimit": 50
recursionLimit == 50

\* agent.py:316  len(messages) > 10
SummarizeThreshold == 10

\* state.py:7
MESSAGES_REPLACE_SENTINEL == "__REPLACE_MESSAGES__"

\* agent.py:61-66: the keys of self.config
config == [recursionLimit |-> recursionLimit, thread_id |-> "1"]

\* The driver reads the ceiling under the key "recursion_limit" of the run
\* configuration and falls back to its default when the key is absent.
recursion_limit(cfg) ==
    IF "recursion_limit" \in DOMAIN cfg THEN cfg.recursion_limit
    ELSE DEFAULT_RECURSION_LIMIT

----------------------------------------------------------------------------
\* Messages.

Message(type, content, id, tool_calls, tool_call_id) ==
    [type |-> type, content |-> content, id |-> id,
     tool_calls |-> tool_calls, tool_call_id |-> tool_call_id]

SystemMessage(content, id) == Message("system", content, id, <<>>, 0)
HumanMessage(content) == Message("human", content, 0, <<>>, 0)
AIMessage(content, id, tool_calls) == Message("ai", content, id, tool_calls, 0)
ToolMessage(content, tool_call_id) == Message("tool", content, 0, <<>>, tool_call_id)

\* agent.py:76-83
system_prompt == SystemMessage("system_prompt", 0)

Queries == {"play something"}

\* merge_messages that keeps the whole of right when it replaces.
merge_messages_keeps_sentinel(left, right) ==
    IF right = <<>> THEN left
    ELSE IF right[1].type = "system" /\ right[1].content = MESSAGES_REPLACE_SENTINEL
         THEN right
         ELSE left \o right

\* state.py:9-18
merge_messages(left, right) ==
    IF right = <<>> THEN left
    ELSE IF right[1].type = "system" /\ right[1].content = MESSAGES_REPLACE_SENTINEL
         THEN Tail(right)
         ELSE left \o right

----------------------------------------------------------------------------
\* Plan (plan.py).

NoPlan == [present |-> FALSE, steps |-> <<>>, current_step |-> 0]

\* research.py:3-14: an Intent; run tags the researcher visit that made it
Intent(goal, notes, run) == [present |-> TRUE, goal |-> goal, notes |-> notes, run |-> run]

NoIntent == [present |-> FALSE, goal |-> "", notes |-> "", run |-> 0]

\* The step lists the oracle proposes: steps "s1", "s2", ... and, for each
\* length, the list whose last step is the empty string.
StepNames == <<"s1", "s2", "s3", "s4", "s5", "s6">>

StepName(i) == StepNames[i]

StepLists ==
    { [i \in 1..n |-> StepName(i)] : n \in 0..MaxSteps } \cup
    { [i \in 1..n |-> IF i = n THEN "" ELSE StepName(i)] : n \in 1..MaxSteps }

\* The oracle's structured answers to the planner: an answer that does not
\* parse, or the fields steps and current_step (optional) of the schema.
PlannerOutputs ==
    { [given |-> TRUE, parsed |-> FALSE, steps |-> <<>>, has_current_step |-> FALSE,
       current_step |-> 0] }
    \cup
    [given : {TRUE}, parsed : {TRUE}, steps : StepLists, has_current_step : {FALSE},
     current_step : {0}]
    \cup
    [given : {TRUE}, parsed : {TRUE}, steps : StepLists, has_current_step : {TRUE},
     current_step : (-1)..MaxCursor]

\* No answer of the oracle yet.
NoOutput ==
    [given |-> FALSE, parsed |-> FALSE, steps |-> <<>>, has_current_step |-> FALSE,
     current_step |-> 0]

\* PlanValid without the min_length constraint on steps.
PlanValid_any_length(out) ==
    /\ out.parsed
    /\ (out.has_current_step => out.current_step >= 0)

\* plan.py:7-20: the field constraints min_length=1 and ge=0
PlanValid(out) ==
    /\ out.parsed
    /\ Len(out.steps) >= 1
    /\ (out.has_current_step => out.current_step >= 0)

\* plan.py:22-25
NewPlan(out) ==
    [present |-> TRUE, steps |-> out.steps,
     current_step |-> IF out.has_current_step THEN out.current_step ELSE 0]

\* next_step advancing the cursor also when no step remains.
next_step_always_advances(p) ==
    IF p.current_step < Len(p.steps)
    THEN [has_step |-> TRUE, step |-> p.steps[p.current_step + 1],
          plan |-> [p EXCEPT !.current_step = p.current_step + 1]]
    ELSE [has_step |-> FALSE, step |-> "",
          plan |-> [p EXCEPT !.current_step = p.current_step + 1]]

\* next_step advancing the cursor by two.
next_step_skips(p) ==
    IF p.current_step < Len(p.steps)
    THEN [has_step |-> TRUE, step |-> p.steps[p.current_step + 1],
          plan |-> [p EXCEPT !.current_step = p.current_step + 2]]
    ELSE [has_step |-> FALSE, step |-> "", plan |-> p]

\* plan.py:27-33: the step read (has_step FALSE for None) and the plan after
next_step(p) ==
    IF p.current_step < Len(p.steps)
    THEN [has_step |-> TRUE, step |-> p.steps[p.current_step + 1],
          plan |-> [p EXCEPT !.current_step = p.current_step + 1]]
    ELSE [has_step |-> FALSE, step |-> "", plan |-> p]

\* Plan.get_current_step, which agent.py:247 calls and plan.py does not
\* define: the step at the cursor, the "paso actual" that the description of
\* the field current_step speaks of (plan.py:15-17), none when the cursor is
\* at the end of the steps or past it.
get_current_step(p) ==
    IF p.current_step < Len(p.steps)
    THEN [has_step |-> TRUE, step |-> p.steps[p.current_step + 1]]
    ELSE [has_step |-> FALSE, step |-> ""]

----------------------------------------------------------------------------
\* Graph topology (agent.py:86-129).

Nodes == {"planner", "researcher", "summarizer", "executor", "tools", "critic",
          "finalizer"}

\* agent.py:96
entry_point == "planner"

\* after_node with the edge out of the tool runner leading to need-tools.
after_node_tools_to_need_tools(node) ==
    CASE node = "planner" -> "researcher"
      [] node = "researcher" -> "need_summarize"
      [] node = "summarizer" -> "executor"
      [] node = "executor" -> "need_tools"
      [] node = "tools" -> "need_tools"
      [] node = "critic" -> "need_more_steps"
      [] node = "finalizer" -> "END"

\* after_node with the edge out of the tool runner leading to the critic.
after_node_tools_to_critic(node) ==
    CASE node = "planner" -> "researcher"
      [] node = "researcher" -> "need_summarize"
      [] node = "summarizer" -> "executor"
      [] node = "executor" -> "need_tools"
      [] node = "tools" -> "critic"
      [] node = "critic" -> "need_more_steps"
      [] node = "finalizer" -> "END"

\* agent.py:108-126: the node or router that follows a node
after_node(node) ==
    CASE node = "planner" -> "researcher"
      [] node = "researcher" -> "need_summarize"
      [] node = "summarizer" -> "executor"
      [] node = "executor" -> "need_tools"
      [] node = "tools" -> "executor"
      [] node = "critic" -> "need_more_steps"
      [] node = "finalizer" -> "END"

\* agent.py:109-125: the mappings of the conditional edges
branch(router, value) ==
    CASE router = "need_summarize" -> IF value THEN "summarizer" ELSE "executor"
      [] router = "need_tools" -> IF value THEN "tools" ELSE "critic"
      [] router = "need_more_steps" -> IF value THEN "researcher" ELSE "finalizer"

Count(seq, x) == Cardinality({i \in 1..Len(seq) : seq[i] = x})

Last(seq) == seq[Len(seq)]

----------------------------------------------------------------------------
\* The event stream and its translation to Chunks (agent.py:378-461).

\* An event payload without entries.
NoData == [x \in {} |-> x]

\* An event of the driver's stream: its kind, its name, the node it comes
\* from (metadata langgraph_node) and its payload.
Event(kind, name, node, data) ==
    [event |-> kind, name |-> name, node |-> node, data |-> data]

\* dispatch_custom_event(name, data) called in a node or in its router
dispatch_custom_event(name, node, data) == Event("on_custom_event", name, node, data)

\* The markers the driver emits when a node starts and ends.
on_chain_start(node) == Event("on_chain_start", node, node, NoData)
on_chain_end(node) == Event("on_chain_end", node, node, NoData)

\* The token fragments of one oracle call made in a node, n of them.
on_chat_model_stream(node, n) ==
    [i \in 1..n |-> Event("on_chat_model_stream", "ChatModel", node,
                          [content |-> "token", index |-> i])]

\* chunk.py: a Chunk; src is the position in the event stream of the event
\* it renders
Chunk(type, content, src) == [type |-> type, content |-> content, src |-> src]

\* agent.py:401-452: the event names the translator has a case for
KnownEventNames ==
    {"need_summarize", "need_tools", "need_more_steps", "planning_started",
     "planning_completed", "research_started", "research_completed",
     "summarizing_started", "summarizing_completed", "execution_started",
     "execution_completed"}

\* translate without the default case for the names it does not know.
translate_known_names_only(ev, src) ==
    IF ev.event = "on_chat_model_stream"
    THEN IF ev.node \in {"researcher", "planner"} THEN <<>>
         ELSE IF ev.node = "finalizer"
              THEN <<Chunk("TEXT", ev.data.content, src)>>
              ELSE <<>>
    ELSE IF ev.event = "on_custom_event" /\ ev.name \in KnownEventNames
         THEN <<Chunk("THINKING", [name |-> ev.name, data |-> ev.data], src)>>
         ELSE <<>>

\* translate that also forwards the fragments of the planner and of the
\* researcher.
translate_every_fragment(ev, src) ==
    IF ev.event = "on_chat_model_stream"
    THEN <<Chunk("TEXT", ev.data.content, src)>>
    ELSE IF ev.event = "on_custom_event"
         THEN <<Chunk("THINKING", [name |-> ev.name, data |-> ev.data], src)>>
         ELSE <<>>

\* agent.py:378-458: the Chunk made of one event, or none. Fragments of the
\* planner and of the researcher are passed over, fragments of the finalizer
\* become TEXT, fragments of other nodes match no case; every custom event
\* becomes THINKING, rendered from its name and payload; events of other
\* kinds are passed over.
translate(ev, src) ==
    IF ev.event = "on_chat_model_stream"
    THEN IF ev.node \in {"researcher", "planner"} THEN <<>>
         ELSE IF ev.node = "finalizer"
              THEN <<Chunk("TEXT", ev.data.content, src)>>
              ELSE <<>>
    ELSE IF ev.event = "on_custom_event"
         THEN <<Chunk("THINKING", [name |-> ev.name, data |-> ev.data], src)>>
         ELSE <<>>

RECURSIVE translate_all(_, _)
\* agent.py:378-461: the loop over the events, evs being the events that
\* follow the first base events of the stream
translate_all(evs, base) ==
    IF evs = <<>> THEN <<>>
    ELSE translate(Head(evs), base + 1) \o translate_all(Tail(evs), base + 1)

\* yield_chunks putting the new Chunks before the ones already yielded.
yield_chunks_newest_first(yielded, new) == new \o yielded

\* agent.py:460-461: the Chunks are yielded one after the other
yield_chunks(yielded, new) == yielded \o new

\* Emit yielding Chunks whether or not the caller iterates.
Emit_without_caller(evs) ==
    /\ events' = events \o evs
    /\ chunks' = yield_chunks(chunks, translate_all(evs, Len(events)))
    /\ UNCHANGED consuming

\* The driver publishes the events evs and invoke translates them. invoke is
\* a generator: its loop body runs only when the caller asks for the next
\* Chunk, so nothing is yielded once the caller has stopped iterating.
Emit(evs) ==
    /\ events' = events \o evs
    /\ chunks' = IF consuming
                 THEN yield_chunks(chunks, translate_all(evs, Len(events)))
                 ELSE chunks
    /\ UNCHANGED consuming

\* NodeEvents without the marker of the node's end.
NodeEvents_unclosed(node, body) == <<on_chain_start(node)>> \o body

\* The events of a node that returns: its start marker, the events of its
\* body and its end marker.
NodeEvents(node, body) == <<on_chain_start(node)>> \o body \o <<on_chain_end(node)>>

\* The events of a node that raises after the events of body.
RaisedEvents(node, body) == <<on_chain_start(node)>> \o body

\* A router dispatches its value from the node whose edge it decides.
RouterEmit(name, field, value) ==
    Emit(<<dispatch_custom_event(name, Last(trace), [f \in {field} |-> value])>>)

----------------------------------------------------------------------------
\* SpotifyManager (spotify_manager.py).

\* most track URIs handed to add_tracks_to_playlist
MaxTracks == 201

\* largest start position handed to add_tracks_to_playlist
MaxPosition == 1

\* spotify_manager.py:119-120: the step of the range and the width of the slice
PlaylistBatch == 100

\* Optional[int]: None, or an integer
None == [is_none |-> TRUE, value |-> 0]

SomeInt(n) == [is_none |-> FALSE, value |-> n]

\* No call of add_tracks_to_playlist is in progress.
NoSpotify ==
    [pc |-> "idle", track_uris |-> <<>>, position |-> None, i |-> 0, added |-> 0,
     current_pos |-> None, calls |-> <<>>,
     result |-> [playlist_id |-> "", tracks_added |-> 0]]

\* The lists of URIs a call is made with: all different, or all the same.
TrackLists ==
    { [j \in 1..n |-> j] : n \in 0..MaxTracks }
    \cup { [j \in 1..n |-> 1] : n \in 0..MaxTracks }

\* position: Optional[int]
Positions == {None} \cup {SomeInt(p) : p \in 0..MaxPosition}

\* chunk that is one item short of the slice.
chunk_one_short(track_uris, i) ==
    SubSeq(track_uris, i + 1,
           IF i + PlaylistBatch - 1 < Len(track_uris) THEN i + PlaylistBatch - 1
                                                      ELSE Len(track_uris))

\* spotify_manager.py:120: track_uris[i : i + 100]
chunk(track_uris, i) ==
    SubSeq(track_uris, i + 1,
           IF i + PlaylistBatch < Len(track_uris) THEN i + PlaylistBatch
                                                  ELSE Len(track_uris))

\* spotify_manager.py:114-118: the call begins
add_tracks_to_playlist ==
    /\ spotify.pc = "called"
    /\ spotify' = [spotify EXCEPT !.pc = "loop", !.added = 0, !.i = 0,
                                  !.current_pos = spotify.position]
    /\ UNCHANGED <<pc, messages, plan, scratch, human_query, plan_output, visits, trace,
                   investigated, error, prev, update, events, chunks, consuming>>

\* spotify_manager.py:119-128: one iteration of the loop
playlist_add_items ==
    /\ spotify.pc = "loop"
    /\ spotify.i < Len(spotify.track_uris)
    /\ LET c == chunk(spotify.track_uris, spotify.i)
       IN spotify' = [spotify EXCEPT
             !.calls = Append(@, [playlist_id |-> "playlist", items |-> c,
                                  position |-> spotify.current_pos]),
             !.added = @ + Len(c),
             !.current_pos = IF @ # None THEN SomeInt(@.value + Len(c)) ELSE @,
             !.i = @ + PlaylistBatch]
    /\ UNCHANGED <<pc, messages, plan, scratch, human_query, plan_output, visits, trace,
                   investigated, error, prev, update, events, chunks, consuming>>

\* spotify_manager.py:119, 129: the range is exhausted and the call returns
add_tracks_return ==
    /\ spotify.pc = "loop"
    /\ spotify.i >= Len(spotify.track_uris)
    /\ spotify' = [spotify EXCEPT !.pc = "returned",
                      !.result = [playlist_id |-> "playlist",
                                  tracks_added |-> spotify.added]]
    /\ UNCHANGED <<pc, messages, plan, scratch, human_query, plan_output, visits, trace,
                   investigated, error, prev, update, events, chunks, consuming>>

----------------------------------------------------------------------------
\* A stage may start while the turn is below the driver's ceiling.
CanVisit(node) == pc = node /\ visits < recursion_limit(config)

\* The channels as a stage finds them.
Snapshot == [messages |-> messages, plan |-> plan, scratch |-> scratch]

\* Bookkeeping of a stage visit that returns normally.
Visited(node) ==
    /\ visits' = visits + 1
    /\ trace' = Append(trace, node)
    /\ pc' = after_node(node)
    /\ error' = "none"
    /\ prev' = Snapshot
    /\ UNCHANGED <<update, spotify>>

\* Bookkeeping of a stage visit whose body raises: the turn ends.
Raised(node) ==
    /\ visits' = visits + 1
    /\ trace' = Append(trace, node)
    /\ pc' = "error"
    /\ error' = "stage_exception"
    /\ prev' = Snapshot
    /\ UNCHANGED <<update, spotify>>

----------------------------------------------------------------------------
Init ==
    /\ pc = "idle"
    /\ messages = <<>>
    /\ plan = NoPlan
    /\ scratch = [intent |-> NoIntent]
    /\ human_query = HumanMessage("")
    /\ plan_output = NoOutput
    /\ visits = 0
    /\ trace = <<>>
    /\ investigated = <<>>
    /\ error = "none"
    /\ prev = Snapshot
    /\ update = <<>>
    /\ spotify = NoSpotify
    /\ events = <<>>
    /\ chunks = <<>>
    /\ consuming = TRUE

\* agent.py:355-376: invoke stores the query and feeds the initial state to
\* the graph, whose channels merge it.
invoke ==
    /\ pc = "idle"
    /\ \E q \in Queries :
        /\ human_query' = HumanMessage(q)
        /\ messages' = merge_messages(messages, <<system_prompt, HumanMessage(q)>>)
    /\ pc' = entry_point
    /\ visits' = 0
    /\ trace' = <<>>
    /\ error' = "none"
    /\ events' = <<>>
    /\ chunks' = <<>>
    /\ consuming' = TRUE
    /\ UNCHANGED <<plan, scratch, plan_output, investigated, prev, update, spotify>>

\* agent.py:136-161: the planner. The structured call raises when the oracle
\* fails or when its answer does not validate as a Plan; nothing catches it.
stage_plan ==
    /\ CanVisit("planner")
    /\ \E oracle_fails \in BOOLEAN, out \in PlannerOutputs :
        IF oracle_fails \/ ~PlanValid(out)
        THEN /\ Raised("planner")
             /\ plan_output' = IF oracle_fails THEN plan_output ELSE out
             /\ Emit(RaisedEvents("planner",
                    <<dispatch_custom_event("planning_started", "planner", NoData)>>
                    \o on_chat_model_stream("planner",
                                            IF oracle_fails THEN 0 ELSE MaxFragments)))
             /\ UNCHANGED <<messages, plan, scratch>>
        ELSE /\ Visited("planner")
             /\ plan_output' = out
             /\ plan' = NewPlan(out)
             /\ messages' = merge_messages(messages,
                                messages \o <<AIMessage("plan_ack", visits + 1, <<>>)>>)
             /\ Emit(NodeEvents("planner",
                    <<dispatch_custom_event("planning_started", "planner", NoData)>>
                    \o on_chat_model_stream("planner", MaxFragments)
                    \o <<dispatch_custom_event("planning_completed", "planner",
                                               [plan |-> NewPlan(out)])>>))
             /\ UNCHANGED scratch
    /\ UNCHANGED <<human_query, investigated>>

\* stage_research returning the history it was given along with the Intent.
stage_research_returns_history ==
    /\ CanVisit("researcher")
    /\ LET r == next_step(plan)
           truthy == r.has_step /\ r.step # ""
           intent == IF truthy
                     THEN Intent(r.step, "notes", visits + 1)
                     ELSE Intent("Ninguno", "No hay pasos para investigar.", visits + 1)
           started == dispatch_custom_event("research_started", "researcher",
                         [step |-> IF truthy THEN r.step ELSE "",
                          step_index |-> IF truthy THEN r.plan.current_step - 1 ELSE 0])
       IN /\ investigated' = IF r.has_step
                             THEN Append(investigated, plan.current_step)
                             ELSE investigated
          /\ plan' = r.plan
          /\ \/ /\ truthy
                /\ Raised("researcher")
                /\ Emit(RaisedEvents("researcher", <<started>>))
                /\ UNCHANGED scratch
             \/ /\ Visited("researcher")
                /\ scratch' = [intent |-> intent]
                /\ Emit(NodeEvents("researcher",
                       <<started>>
                       \o on_chat_model_stream("researcher",
                                               IF truthy THEN MaxFragments ELSE 0)
                       \o <<dispatch_custom_event("research_completed", "researcher",
                                                  [intent |-> intent])>>))
    /\ messages' = merge_messages(messages, messages)
    /\ UNCHANGED <<human_query, plan_output>>

\* agent.py:168-209: the researcher. next_step advances the Plan object of
\* the state in place, before the oracle is called.
stage_research ==
    /\ CanVisit("researcher")
    /\ LET r == next_step(plan)
           truthy == r.has_step /\ r.step # ""
           intent == IF truthy
                     THEN Intent(r.step, "notes", visits + 1)
                     ELSE Intent("Ninguno", "No hay pasos para investigar.", visits + 1)
           started == dispatch_custom_event("research_started", "researcher",
                         [step |-> IF truthy THEN r.step ELSE "",
                          step_index |-> IF truthy THEN r.plan.current_step - 1 ELSE 0])
       IN /\ investigated' = IF r.has_step
                             THEN Append(investigated, plan.current_step)
                             ELSE investigated
          /\ plan' = r.plan
          /\ \/ /\ truthy
                /\ Raised("researcher")
                /\ Emit(RaisedEvents("researcher", <<started>>))
                /\ UNCHANGED scratch
             \/ /\ Visited("researcher")
                /\ scratch' = [intent |-> intent]
                /\ Emit(NodeEvents("researcher",
                       <<started>>
                       \o on_chat_model_stream("researcher",
                                               IF truthy THEN MaxFragments ELSE 0)
                       \o <<dispatch_custom_event("research_completed", "researcher",
                                                  [intent |-> intent])>>))
    /\ UNCHANGED <<messages, human_query, plan_output>>

\* need_summarize_of that is true from the threshold on.
need_summarize_from_threshold(msgs) == Len(msgs) >= SummarizeThreshold

\* agent.py:315-316: the value of need-summarize on a history
need_summarize_of(msgs) == Len(msgs) > SummarizeThreshold

\* agent.py:307-318
need_summarize ==
    /\ pc = "need_summarize"
    /\ pc' = branch("need_summarize", need_summarize_of(messages))
    /\ RouterEmit("need_summarize", "need_summarize", need_summarize_of(messages))
    /\ UNCHANGED <<messages, plan, scratch, human_query, plan_output, visits, trace,
                   investigated, error, prev, update, spotify>>

\* agent.py:216-237: the summarizer
stage_summarize ==
    /\ CanVisit("summarizer")
    /\ LET started == dispatch_custom_event("summarizing_started", "summarizer",
                                            [total_messages |-> Len(messages)])
       IN \/ /\ Raised("summarizer")
             /\ Emit(RaisedEvents("summarizer", <<started>>))
             /\ UNCHANGED messages
          \/ /\ Visited("summarizer")
             /\ messages' = merge_messages(messages,
                               <<system_prompt, human_query,
                                 SystemMessage("summary", visits + 1)>>)
             /\ Emit(NodeEvents("summarizer",
                    <<started>>
                    \o on_chat_model_stream("summarizer", MaxFragments)
                    \o <<dispatch_custom_event("summarizing_completed", "summarizer",
                                               [summary |-> "summary"])>>))
    /\ UNCHANGED <<plan, scratch, human_query, plan_output, investigated>>

\* spotify_tools.py: the tools registered with the agent (one stands for all)
RegisteredTools == {"search_song"}

\* The tool-invocation requests the oracle may attach to its response on
\* visit v: up to maxk requests, each with its own identifier, all of them
\* naming a registered tool or the first one naming a tool that is not.
ToolCalls(v, maxk) ==
    UNION { { [i \in 1..k |->
                 [id |-> 10 * v + i,
                  name |-> IF i = 1 /\ bad THEN "no_such_tool" ELSE "search_song"]] :
                bad \in BOOLEAN } : k \in 0..maxk }

\* agent.py:244-278: the executor. The visit raises when one of its calls
\* raises: the oracle call (agent.py:266), Plan.get_current_step (agent.py:247,
\* which plan.py does not define) or the rendering of the "executor" prompt
\* (agent.py:255, a name prompts.py:4-8 does not list). A visit that raises
\* at agent.py:247 has not yet dispatched execution_started. When the visit
\* returns, the oracle's response follows a copy of the history in the value
\* returned.
stage_executor ==
    /\ CanVisit("executor")
    /\ LET cur == get_current_step(plan)
           started == dispatch_custom_event("execution_started", "executor",
                         [step |-> IF cur.has_step /\ cur.step # "" THEN cur.step ELSE "",
                          intent |-> scratch.intent])
       IN \/ /\ Raised("executor")
             /\ \E reached_oracle \in BOOLEAN :
                   Emit(RaisedEvents("executor",
                                     IF reached_oracle THEN <<started>> ELSE <<>>))
             /\ UNCHANGED messages
          \/ /\ Visited("executor")
             /\ \E calls \in ToolCalls(visits + 1,
                               IF Count(trace, "tools") < MaxToolRounds
                               THEN MaxCalls ELSE 0) :
                   messages' = merge_messages(messages,
                                  messages \o <<AIMessage("response", visits + 1, calls)>>)
             /\ Emit(NodeEvents("executor",
                    <<started>>
                    \o on_chat_model_stream("executor", MaxFragments)
                    \o <<dispatch_custom_event("execution_completed", "executor",
                                               [response |-> "response"])>>))
    /\ UNCHANGED <<plan, scratch, human_query, plan_output, investigated>>

\* need_tools_of that does not look at the requests of the response.
need_tools_any_response(msgs) == Last(msgs).type = "ai"

\* agent.py:330-332: the value of need-tools on a history that is not empty
need_tools_of(msgs) ==
    LET last == Last(msgs)
    IN last.type = "ai" /\ Len(last.tool_calls) > 0

\* agent.py:321-334
need_tools ==
    /\ pc = "need_tools"
    /\ pc' = branch("need_tools", need_tools_of(messages))
    /\ RouterEmit("need_tools", "need_tools", need_tools_of(messages))
    /\ UNCHANGED <<messages, plan, scratch, human_query, plan_output, visits, trace,
                   investigated, error, prev, update, spotify>>

\* ToolResult that does not tag the result with the request's identifier.
ToolResult_untagged(call) ==
    IF call.name \in RegisteredTools
    THEN ToolMessage("str(result)", 0)
    ELSE ToolMessage("Error: not a valid tool, try one of the registered tools", 0)

\* The result message of one tool-invocation request: the stringified
\* return value of a registered tool, or the tool runner's corrective text
\* for a name that is not registered.
ToolResult(call) ==
    IF call.name \in RegisteredTools
    THEN ToolMessage("str(result)", call.id)
    ELSE ToolMessage("Error: not a valid tool, try one of the registered tools",
                     call.id)

\* stage_tools raising on a request that names a tool that is not registered.
stage_tools_unknown_raises ==
    /\ CanVisit("tools")
    /\ LET calls == messages[Len(messages)].tool_calls
       IN IF \E i \in 1..Len(calls) : calls[i].name \notin RegisteredTools
          THEN /\ Raised("tools")
               /\ Emit(RaisedEvents("tools", <<>>))
               /\ UNCHANGED messages
          ELSE /\ Visited("tools")
               /\ messages' = merge_messages(messages,
                                 [i \in 1..Len(calls) |-> ToolResult(calls[i])])
               /\ Emit(NodeEvents("tools", <<>>))
    /\ UNCHANGED <<plan, scratch, human_query, plan_output, investigated>>

\* agent.py:103: the tool runner answers every request of the last message
stage_tools ==
    /\ CanVisit("tools")
    /\ Visited("tools")
    /\ LET calls == messages[Len(messages)].tool_calls
       IN messages' = merge_messages(messages,
                         [i \in 1..Len(calls) |-> ToolResult(calls[i])])
    /\ Emit(NodeEvents("tools", <<>>))
    /\ UNCHANGED <<plan, scratch, human_query, plan_output, investigated>>

\* stage_critic putting the cursor of the Plan back to the first step.
stage_critic_resets_cursor ==
    /\ CanVisit("critic")
    /\ Visited("critic")
    /\ messages' = merge_messages(messages, messages)
    /\ plan' = [plan EXCEPT !.current_step = 0]
    /\ scratch' = scratch
    /\ Emit(NodeEvents("critic",
           <<dispatch_custom_event("critic_started", "critic", NoData),
             dispatch_custom_event("critic_completed", "critic", NoData)>>))
    /\ UNCHANGED <<human_query, plan_output, investigated>>

\* agent.py:285-289: the critic returns the state it was given, which the
\* driver merges channel by channel
stage_critic ==
    /\ CanVisit("critic")
    /\ Visited("critic")
    /\ messages' = merge_messages(messages, messages)
    /\ plan' = plan
    /\ scratch' = scratch
    /\ Emit(NodeEvents("critic",
           <<dispatch_custom_event("critic_started", "critic", NoData),
             dispatch_custom_event("critic_completed", "critic", NoData)>>))
    /\ UNCHANGED <<human_query, plan_output, investigated>>

\* agent.py:345-347: the value of need-more-steps on a Plan
should_continue(p) == p.current_step < Len(p.steps)

\* agent.py:337-349
need_more_steps ==
    /\ pc = "need_more_steps"
    /\ pc' = branch("need_more_steps", should_continue(plan))
    /\ RouterEmit("need_more_steps", "should_continue", should_continue(plan))
    /\ UNCHANGED <<messages, plan, scratch, human_query, plan_output, visits, trace,
                   investigated, error, prev, update, spotify>>

\* agent.py:296-300: the finalizer returns the state it was given
stage_finalize ==
    /\ CanVisit("finalizer")
    /\ Visited("finalizer")
    /\ messages' = merge_messages(messages, messages)
    /\ plan' = plan
    /\ scratch' = scratch
    /\ Emit(NodeEvents("finalizer",
           <<dispatch_custom_event("finalizing_started", "finalizer", NoData),
             dispatch_custom_event("finalizing_completed", "finalizer", NoData)>>))
    /\ UNCHANGED <<human_query, plan_output, investigated>>

\* out_of_steps delivering the error to the caller as a TEXT Chunk.
out_of_steps_in_text ==
    /\ pc \in Nodes
    /\ visits >= recursion_limit(config)
    /\ pc' = "error"
    /\ error' = "GraphRecursionError"
    /\ chunks' = Append(chunks, Chunk("TEXT", "GraphRecursionError", Len(events)))
    /\ UNCHANGED <<messages, plan, scratch, human_query, plan_output, visits, trace,
                   investigated, prev, update, spotify, events, consuming>>

\* out_of_steps comparing the visits with the ceiling one too late.
out_of_steps_late ==
    /\ pc \in Nodes
    /\ visits > recursion_limit(config)
    /\ pc' = "error"
    /\ error' = "GraphRecursionError"
    /\ UNCHANGED <<messages, plan, scratch, human_query, plan_output, visits, trace,
                   investigated, prev, update, spotify, events, chunks, consuming>>

\* agent.py:373-376: the driver stops a turn that has a stage left to run
\* once the ceiling is reached
out_of_steps ==
    /\ pc \in Nodes
    /\ visits >= recursion_limit(config)
    /\ pc' = "error"
    /\ error' = "GraphRecursionError"
    /\ UNCHANGED <<messages, plan, scratch, human_query, plan_output, visits, trace,
                   investigated, prev, update, spotify, events, chunks, consuming>>

Next ==
    \/ invoke
    \/ stage_plan
    \/ stage_research
    \/ need_summarize
    \/ stage_summarize
    \/ stage_executor
    \/ need_tools
    \/ stage_tools
    \/ stage_critic
    \/ need_more_steps
    \/ stage_finalize
    \/ out_of_steps

Spec == Init /\ [][Next]_vars

\* The caller leaves its loop over the generator of invoke (chat.py:31 is a
\* loop that never does; another caller may).
stop_consuming ==
    /\ pc \notin {"idle", "END", "error"}
    /\ consuming
    /\ Len(chunks) <= MaxTaken
    /\ consuming' = FALSE
    /\ UNCHANGED <<pc, messages, plan, scratch, human_query, plan_output, visits,
                   trace, investigated, error, prev, update, spotify, events, chunks>>

\* A turn whose caller may stop iterating early while the stages go on.
ConsumerNext ==
    \/ Next
    \/ stop_consuming

ConsumerSpec == Init /\ [][ConsumerNext]_vars

\* The same behaviours, with every enabled step eventually taken: the driver
\* runs the stages one after the other until the turn ends, and oracle and
\* tool calls return.
FairSpec == Spec /\ WF_vars(Next)

----------------------------------------------------------------------------
\* The router predicates on their own: each is evaluated once on a state
\* drawn from bounded sets of histories and Plans.

\* longest history a router predicate is evaluated on
MaxHistory == 12

\* The messages a drawn history may end with.
LastMessages ==
    { AIMessage("response", 3, <<>>),
      AIMessage("response", 3, <<[id |-> 31, name |-> "search_song"]>>),
      AIMessage("response", 3, <<[id |-> 31, name |-> "no_such_tool"],
                                 [id |-> 32, name |-> "search_song"]>>),
      ToolMessage("str(result)", 31),
      HumanMessage("play something"),
      SystemMessage("summary", 3) }

\* Histories of 1 to MaxHistory messages.
Histories ==
    { [i \in 1..n |-> IF i = n THEN m
                      ELSE IF i = 1 THEN system_prompt
                      ELSE HumanMessage("play something")] :
        n \in 1..MaxHistory, m \in LastMessages }

\* Plans with any cursor the planner may store or the researcher may reach.
Plans ==
    { [present |-> TRUE, steps |-> st, current_step |-> c] :
        st \in { l \in StepLists : Len(l) >= 1 }, c \in 0..MaxCursor }

RouterInit ==
    /\ pc \in {"need_summarize", "need_tools", "need_more_steps"}
    /\ messages \in Histories
    /\ plan \in Plans
    /\ (pc # "need_more_steps" => plan.current_step = 1 /\ Len(plan.steps) = 1)
    /\ (pc = "need_more_steps" => Len(messages) = 1)
    /\ scratch = [intent |-> Intent("s1", "notes", 2)]
    /\ human_query = HumanMessage("play something")
    /\ plan_output = NoOutput
    /\ visits = IF pc = "need_summarize" THEN 2 ELSE IF pc = "need_tools" THEN 3 ELSE 4
    /\ trace = IF pc = "need_summarize" THEN <<"planner", "researcher">>
               ELSE IF pc = "need_tools" THEN <<"planner", "researcher", "executor">>
               ELSE <<"planner", "researcher", "executor", "critic">>
    /\ investigated = <<0>>
    /\ error = "none"
    /\ prev = Snapshot
    /\ update = <<>>
    /\ spotify = NoSpotify
    /\ events = <<>>
    /\ chunks = <<>>
    /\ consuming = TRUE

RouterNext ==
    \/ need_summarize
    \/ need_tools
    \/ need_more_steps

RouterSpec == RouterInit /\ [][RouterNext]_vars

----------------------------------------------------------------------------
\* Several turns on one agent.

\* longest history of a finished turn after which invoke is called again
MaxCarried == 11

\* agent.py:355-376 on an agent that has finished a turn: the graph was
\* compiled with InMemorySaver (agent.py:128-129) and every call uses the
\* thread "1" (agent.py:61-66), so the channels start from the values the
\* earlier turn left and the input is merged into them.
invoke_again ==
    /\ pc \in {"END", "error"}
    /\ Len(messages) <= MaxCarried
    /\ \E q \in Queries :
        /\ human_query' = HumanMessage(q)
        /\ messages' = merge_messages(messages, <<system_prompt, HumanMessage(q)>>)
    /\ pc' = entry_point
    /\ visits' = 0
    /\ trace' = <<>>
    /\ investigated' = <<>>
    /\ error' = "none"
    /\ events' = <<>>
    /\ chunks' = <<>>
    /\ consuming' = TRUE
    /\ UNCHANGED <<plan, scratch, plan_output, prev, update, spotify>>

TurnsNext == Next \/ invoke_again

TurnsSpec == Init /\ [][TurnsNext]_vars

----------------------------------------------------------------------------
\* The merge rule of the history on drawn arguments.

\* most messages of a drawn left or right argument
MaxMerge == 2

\* The messages the arguments of merge_messages are drawn from.
MergeMessages ==
    { SystemMessage(MESSAGES_REPLACE_SENTINEL, 0),
      HumanMessage(MESSAGES_REPLACE_SENTINEL),
      system_prompt,
      AIMessage("response", 1, <<>>) }

\* The sequences of 0 to MaxMerge drawn messages.
MergeLists ==
    UNION { [1..n -> MergeMessages] : n \in 0..MaxMerge }

MergeInit ==
    /\ pc = "merge"
    /\ messages \in MergeLists
    /\ update \in MergeLists
    /\ plan = NoPlan
    /\ scratch = [intent |-> NoIntent]
    /\ human_query = HumanMessage("")
    /\ plan_output = NoOutput
    /\ visits = 0
    /\ trace = <<>>
    /\ investigated = <<>>
    /\ error = "none"
    /\ prev = Snapshot
    /\ spotify = NoSpotify
    /\ events = <<>>
    /\ chunks = <<>>
    /\ consuming = TRUE

\* state.py:21: the driver applies the reducer of the channel to a write
apply_writes ==
    /\ pc = "merge"
    /\ messages' = merge_messages(messages, update)
    /\ prev' = Snapshot
    /\ pc' = "merged"
    /\ UNCHANGED <<plan, scratch, human_query, plan_output, visits, trace, investigated,
                   error, update, spotify, events, chunks, consuming>>

MergeNext == apply_writes

MergeSpec == MergeInit /\ [][MergeNext]_vars

----------------------------------------------------------------------------
\* add_tracks_to_playlist on drawn arguments.

SpotifyInit ==
    /\ pc = "idle"
    /\ messages = <<>>
    /\ plan = NoPlan
    /\ scratch = [intent |-> NoIntent]
    /\ human_query = HumanMessage("")
    /\ plan_output = NoOutput
    /\ visits = 0
    /\ trace = <<>>
    /\ investigated = <<>>
    /\ error = "none"
    /\ prev = Snapshot
    /\ update = <<>>
    /\ \E uris \in TrackLists, p \in Positions :
         spotify = [NoSpotify EXCEPT !.pc = "called", !.track_uris = uris,
                                     !.position = p]
    /\ events = <<>>
    /\ chunks = <<>>
    /\ consuming = TRUE

SpotifyNext ==
    \/ add_tracks_to_playlist
    \/ playlist_add_items
    \/ add_tracks_return

SpotifySpec == SpotifyInit /\ [][SpotifyNext]_vars

----------------------------------------------------------------------------
\* Claims.

AllowedEdges ==
    { <<"planner", "researcher">>, <<"researcher", "summarizer">>,
      <<"researcher", "executor">>, <<"summarizer", "executor">>,
      <<"executor", "tools">>, <<"executor", "critic">>, <<"tools", "executor">>,
      <<"critic", "researcher">>, <<"critic", "finalizer">> }

\* C1: the stages visited in a turn follow only the allowed edges: the first
\* is the planner, every two consecutive visits are joined by an edge of the
\* graph, the stage that is due next is joined to the last one visited, and
\* END is entered from the finalizer only, which nothing follows.
C1_AllowedEdges ==
    /\ (trace # <<>> => trace[1] = "planner")
    /\ \A i \in 1..(Len(trace) - 1) : <<trace[i], trace[i + 1]>> \in AllowedEdges
    /\ (pc \in Nodes /\ trace # <<>> => <<Last(trace), pc>> \in AllowedEdges)
    /\ (pc \in Nodes /\ trace = <<>> => pc = "planner")
    /\ (pc = "END" => trace # <<>> /\ Last(trace) = "finalizer")
    /\ \A i \in 1..Len(trace) : trace[i] = "finalizer" => i = Len(trace) /\ pc = "END"

\* A turn that ended normally after a summarizer run and a tool round.
C1_Witness ==
    /\ pc = "END"
    /\ Count(trace, "summarizer") > 0
    /\ Count(trace, "tools") > 0

\* C2: when need-more-steps has evaluated to false (the finalizer is due),
\* the researcher has been invoked exactly N = len(plan.steps) times and the
\* cursor equals N.
C2_ExactlyNResearch ==
    pc = "finalizer" =>
        /\ Count(trace, "researcher") = Len(plan.steps)
        /\ plan.current_step = Len(plan.steps)

\* C3: after a summarizer run the history is exactly the system framing, the
\* user query and the digest.
C3_SummarizerResets ==
    (trace # <<>> /\ Last(trace) = "summarizer" /\ pc = "executor") =>
        messages = <<system_prompt, human_query, SystemMessage("summary", visits)>>

\* C4: the stage visits of a turn never exceed the configured ceiling, and a
\* turn aborted for its traversal is aborted at exactly the configured
\* ceiling.
C4_CeilingExact ==
    /\ visits <= recursionLimit
    /\ (error = "GraphRecursionError" => visits = recursionLimit)

\* C5 as stated: every turn eventually ends at END or at the traversal
\* ceiling.
C5_EndsAtEndOrCeiling == <>(pc = "END" \/ error = "GraphRecursionError")

\* C5 as amended: every turn eventually ends, at END, at the traversal
\* ceiling, or with the exception a stage raised.
C5_Terminates ==
    <>(pc = "END" \/ error = "GraphRecursionError" \/ error = "stage_exception")

\* A turn that the executor's exception ended.
C5_Witness ==
    /\ pc = "error"
    /\ error = "stage_exception"
    /\ Last(trace) = "executor"

\* C6: a Plan that is present has 0 <= current_step <= len(steps), and the
\* Plan the planner has just stored has current_step = 0.
C6_CursorInRange ==
    plan.present =>
        /\ 0 <= plan.current_step
        /\ plan.current_step <= Len(plan.steps)
        /\ (pc = "researcher" /\ Last(trace) = "planner" => plan.current_step = 0)

\* C7: once a Plan is present, every step of the turn leaves the cursor
\* unchanged or increases it by exactly one.
C7_CursorForward ==
    [][plan.present =>
          /\ plan'.present
          /\ \/ plan'.current_step = plan.current_step
             \/ plan'.current_step = plan.current_step + 1]_vars

\* The cursor has advanced twice.
C7_Witness ==
    /\ plan.present
    /\ Len(investigated) >= 2
    /\ plan.current_step >= 2

\* C8: the step indices investigated in a turn are 0, 1, 2, ... in this
\* order, none twice, and all N of them once the finalizer is due.
C8_InOrderFromZero ==
    /\ \A i \in 1..Len(investigated) : investigated[i] = i - 1
    /\ (pc = "finalizer" => Len(investigated) = Len(plan.steps))

\* The default plan of the planner's fallback.
DefaultPlan ==
    [present |-> TRUE,
     steps |-> <<"Analizar la consulta del usuario", "Ejecutar acciones necesarias",
                 "Proporcionar respuesta">>,
     current_step |-> 0]

\* C9: when the oracle's answer to the planner is not a valid Plan, the turn
\* is not aborted: the default plan is stored and the researcher is due.
C9_FallbackPlan ==
    (plan_output.given /\ ~PlanValid(plan_output)) =>
        /\ pc # "error"
        /\ plan = DefaultPlan

\* C10: once the planner has run, every stage and router predicate that is
\* due finds a Plan with at least one step.
C10_PlanPresent ==
    (pc \in (Nodes \ {"planner"}) \cup {"need_summarize", "need_tools",
                                        "need_more_steps", "END"}) =>
        /\ plan.present
        /\ Len(plan.steps) >= 1

\* The critic's router is due on a Plan of the oracle.
C10_Witness ==
    /\ pc = "need_more_steps"
    /\ plan_output.given
    /\ plan.steps = plan_output.steps

C12_NeedTools ==
    /\ (pc = "tools" =>
          /\ Last(trace) = "executor"
          /\ Last(messages).type = "ai"
          /\ Len(Last(messages).tool_calls) >= 1)
    /\ (pc = "critic" =>
          /\ Last(trace) = "executor"
          /\ ~(Last(messages).type = "ai" /\ Len(Last(messages).tool_calls) >= 1))

\* The critic is due after a plain text response.
C12_Witness ==
    /\ pc = "critic"
    /\ Last(messages).type = "ai"
    /\ Last(messages).tool_calls = <<>>

\* C13: after the critic the researcher is due iff current_step <
\* len(steps), the finalizer otherwise, so that the finalizer is due only
\* with the cursor equal to the number of steps.
C13_NeedMoreSteps ==
    /\ (pc = "researcher" /\ trace # <<>> /\ Last(trace) = "critic" =>
          plan.current_step < Len(plan.steps))
    /\ (pc = "finalizer" =>
          /\ ~(plan.current_step < Len(plan.steps))
          /\ plan.current_step = Len(plan.steps))

\* Just after a visit of node that returned: no router has run since.
JustAfter(node) == trace # <<>> /\ Last(trace) = node /\ pc = after_node(node)

\* C14: after the planner returns, the history is the history before it
\* followed by exactly one acknowledgment message (nothing duplicated), and
\* state.plan is the new Plan.
C14_PlannerAppendsAck ==
    JustAfter("planner") =>
        /\ messages = prev.messages \o <<AIMessage("plan_ack", visits, <<>>)>>
        /\ plan = NewPlan(plan_output)

\* C15: after every executor visit that returns, the history is the history
\* before it followed by exactly the oracle's response, and plan and scratch
\* are unchanged.
C15_ExecutorAppendsResponse ==
    JustAfter("executor") =>
        /\ Len(messages) = Len(prev.messages) + 1
        /\ SubSeq(messages, 1, Len(prev.messages)) = prev.messages
        /\ Last(messages).type = "ai"
        /\ Last(messages).id = visits
        /\ plan = prev.plan
        /\ scratch = prev.scratch

\* C16: critic and finalizer are pass-through: messages, plan and scratch
\* are the same after the stage as before it.
C16_PassThrough ==
    JustAfter("critic") \/ JustAfter("finalizer") => Snapshot = prev

\* The requests the tool runner found on its last visit.
LastRequests == Last(prev.messages).tool_calls

C19_ChunksInEventOrder ==
    /\ \A i \in 1..Len(chunks) :
         /\ chunks[i].src \in 1..Len(events)
         /\ translate(events[chunks[i].src], chunks[i].src) = <<chunks[i]>>
    /\ \A i \in 1..(Len(chunks) - 1) : chunks[i].src < chunks[i + 1].src
    /\ Len(chunks) = Cardinality({j \in 1..Len(events) : translate(events[j], j) # <<>>})

\* A turn has ended after the finalizer with Chunks of several stages and
\* with events that have no Chunk between them.
C19_Witness ==
    /\ pc = "END"
    /\ Len(chunks) >= 4
    /\ \E i \in 1..(Len(chunks) - 1) : chunks[i + 1].src > chunks[i].src + 1
    /\ \E i, j \in 1..Len(chunks) : events[chunks[i].src].node # events[chunks[j].src].node

\* C20: in a turn that ends after the finalizer, every stage event has a
\* THINKING Chunk and the TEXT Chunks form exactly one contiguous run that is
\* not empty (no THINKING Chunk between two TEXT Chunks).
C20_ThinkingAndOneTextRun ==
    pc = "END" =>
        /\ \A j \in 1..Len(events) :
             events[j].event = "on_custom_event" =>
               \E i \in 1..Len(chunks) : chunks[i].src = j /\ chunks[i].type = "THINKING"
        /\ \E i \in 1..Len(chunks) : chunks[i].type = "TEXT"
        /\ \A i, j, k \in 1..Len(chunks) :
             i < j /\ j < k /\ chunks[i].type = "TEXT" /\ chunks[k].type = "TEXT"
               => chunks[j].type = "TEXT"

\* The positions in the event stream of the token fragments of nodes.
FragmentsOf(nodes) ==
    {j \in 1..Len(events) :
        events[j].event = "on_chat_model_stream" /\ events[j].node \in nodes}

\* The positions in the Chunk stream of the Chunks of a type.
ChunksOfType(type) == {i \in 1..Len(chunks) : chunks[i].type = type}

\* C21: every token fragment of the executor or of the finalizer has a TEXT
\* Chunk, and no TEXT Chunk comes from another stage or from a custom event.
C21_AnswerFragmentsAreText ==
    /\ \A j \in FragmentsOf({"executor", "finalizer"}) :
         \E i \in ChunksOfType("TEXT") : chunks[i].src = j
    /\ \A i \in ChunksOfType("TEXT") :
         chunks[i].src \in FragmentsOf({"executor", "finalizer"})

\* C22: every token fragment of the planner or of the researcher has a
\* THINKING Chunk: none of them is dropped.
C22_PlanningFragmentsAreThinking ==
    \A j \in FragmentsOf({"planner", "researcher"}) :
        \E i \in ChunksOfType("THINKING") : chunks[i].src = j

\* The positions in the event stream of the custom events.
CustomEvents == {j \in 1..Len(events) : events[j].event = "on_custom_event"}

\* C23: every custom event of a stage or of a router has exactly one Chunk,
\* of type THINKING, rendering the event's name and payload, also when the
\* translator has no case for the name (critic_*, finalizing_*).
C23_CustomEventsAreThinking ==
    /\ \A i \in 1..Len(chunks) :
         /\ i > 1 => chunks[i - 1].src < chunks[i].src
         /\ events[chunks[i].src].event = "on_custom_event" =>
              /\ chunks[i].type = "THINKING"
              /\ chunks[i].content.name = events[chunks[i].src].name
              /\ chunks[i].content.data = events[chunks[i].src].data
    /\ Cardinality({i \in 1..Len(chunks) :
                      events[chunks[i].src].event = "on_custom_event"})
         = Cardinality(CustomEvents)

\* The turn has ended after the finalizer, whose events have names the
\* translator has no case for, and the last Chunk renders the last of them.
C23_Witness ==
    /\ pc = "END"
    /\ chunks # <<>>
    /\ Last(chunks).type = "THINKING"
    /\ Last(chunks).content.name = "finalizing_completed"
    /\ Last(chunks).content.name \notin KnownEventNames

\* The last visit was a researcher run (it returned or raised).
AfterResearcher == trace # <<>> /\ Last(trace) = "researcher"

\* The position in the event stream of the last custom event called name,
\* 0 when there is none.
LastEvent(name) ==
    LET S == {j \in CustomEvents : events[j].name = name}
    IN IF S = {} THEN 0 ELSE CHOOSE j \in S : \A k \in S : k <= j

\* C24: a researcher run that reads the step at index i emits
\* research_started with that step's text and step_index = i before its
\* oracle call, and research_completed with the resulting Intent after it.
C24_ResearchEvents ==
    AfterResearcher /\ prev.plan.current_step < Len(prev.plan.steps) =>
        LET i == prev.plan.current_step
            started == LastEvent("research_started")
            completed == LastEvent("research_completed")
        IN /\ started > 0
           /\ events[started].data.step = prev.plan.steps[i + 1]
           /\ events[started].data.step_index = i
           /\ \A j \in FragmentsOf({"researcher"}) :
                j > started => error # "stage_exception" /\ j < completed
           /\ error # "stage_exception" =>
                /\ completed > started
                /\ events[completed].data.intent = scratch.intent

\* C25: a researcher run that finds no step remaining (current_step =
\* len(steps)) returns the sentinel Intent, makes no oracle call and leaves
\* the cursor where it was.
C25_NoStepSentinel ==
    AfterResearcher /\ prev.plan.current_step = Len(prev.plan.steps) =>
        /\ error # "stage_exception"
        /\ scratch.intent.present
        /\ scratch.intent.goal = "Ninguno"
        /\ scratch.intent.notes = "No hay pasos para investigar."
        /\ scratch.intent.run = visits
        /\ plan.current_step = prev.plan.current_step
        /\ \A j \in FragmentsOf({"researcher"}) : j < LastEvent("research_started")

\* A researcher run has found the cursor at the end of the Plan.
C25_Witness ==
    /\ AfterResearcher
    /\ pc = "need_summarize"
    /\ prev.plan.current_step = Len(prev.plan.steps)

\* C26: after every researcher run the scratch slot holds exactly the Intent
\* of that run (the one research_completed carries, nothing else), and the
\* history is the one the researcher found.
C26_ScratchOverwritten ==
    JustAfter("researcher") =>
        /\ DOMAIN scratch = {"intent"}
        /\ scratch.intent.present
        /\ scratch.intent.run = visits
        /\ scratch.intent = events[LastEvent("research_completed")].data.intent
        /\ messages = prev.messages

\* A second researcher run has replaced the Intent of the first.
C26_Witness ==
    /\ JustAfter("researcher")
    /\ Count(trace, "researcher") = 2
    /\ prev.scratch.intent.present
    /\ prev.scratch.intent.goal = "s1"
    /\ scratch.intent.goal = "s2"

IsMarker(ev) == ev.event \in {"on_chain_start", "on_chain_end"}

\* The start and end markers of the stages in the event stream, in order.
Markers == SelectSeq(events, IsMarker)

C28_FatalErrorIsNotAChunk ==
    pc = "error" =>
        /\ error \in {"stage_exception", "GraphRecursionError"}
        /\ \A i \in 1..Len(chunks) :
             /\ chunks[i].type # "TEXT"
             /\ events[chunks[i].src].event = "on_custom_event"
        /\ ~ENABLED Next

\* The ceiling has ended a turn that had delivered Chunks.
C28_Witness ==
    /\ pc = "error"
    /\ error = "GraphRecursionError"
    /\ Len(chunks) >= 2

\* C29: once the caller has stopped iterating, no further Chunk is
\* forwarded to it, whatever the stages do afterwards.
C29_NoChunkAfterStop == [][~consuming => chunks' = chunks /\ ~consuming']_vars

\* The caller stopped, the stages went on to the end of the turn, and custom
\* events were published that have no Chunk.
C29_Witness ==
    /\ ~consuming
    /\ pc = "END"
    /\ Len(chunks) >= 2
    /\ Len(chunks) < Cardinality(CustomEvents)

\* The last visit was an executor visit (it returned or raised).
AfterExecutor == trace # <<>> /\ Last(trace) = "executor"

\* The position in the event stream of the start marker of the last visit.
LastStart ==
    LET S == {j \in 1..Len(events) : events[j].event = "on_chain_start"}
    IN IF S = {} THEN 0 ELSE CHOOSE j \in S : \A k \in S : k <= j

\* C30: on every executor visit, the first for a step or a re-entry after a
\* tool round, execution_started carries the text of the step that the most
\* recent researcher run investigated and the Intent that run produced.
C30_ExecutorStepIsInvestigatedStep ==
    AfterExecutor =>
        LET started == LastEvent("execution_started")
        IN /\ started > LastStart
           /\ events[started].data.step
                = events[LastEvent("research_started")].data.step
           /\ events[started].data.intent
                = events[LastEvent("research_completed")].data.intent

\* C31: the steps of the Plan are those the planner stored, in every later
\* state of the turn; a visit of a stage other than the planner leaves the
\* steps as it found them, and a visit of a stage other than the planner and
\* the researcher leaves the cursor as it found it.
C31_PlanOwnership ==
    /\ plan.present => plan.steps = plan_output.steps
    /\ trace # <<>> /\ Last(trace) # "planner" =>
         /\ plan.present
         /\ plan.steps = prev.plan.steps
         /\ Last(trace) # "researcher" => plan.current_step = prev.plan.current_step

\* Summarizer, executor, tool runner, critic and finalizer have all run in a
\* turn on a Plan of two steps.
C31_Witness ==
    /\ pc = "END"
    /\ Len(plan.steps) = 2
    /\ \A n \in {"summarizer", "executor", "tools", "critic", "finalizer"} :
         Count(trace, n) >= 1

\* C32: when the oracle call inside the researcher fails, the cursor of the
\* Plan and the scratch area are what they were before the visit began.
C32_FailedResearchLeavesState ==
    AfterResearcher /\ error = "stage_exception" =>
        /\ plan.current_step = prev.plan.current_step
        /\ scratch = prev.scratch

\* A system message whose content is the replace sentinel.
IsSentinel(m) == m.type = "system" /\ m.content = MESSAGES_REPLACE_SENTINEL

\* The messages of a history that are the sentinel.
Sentinels(msgs) == Cardinality({j \in 1..Len(msgs) : IsSentinel(msgs[j])})

\* C33: merge_messages(left, right) is left when right is empty, right
\* without its first element when that element is the sentinel, and left
\* followed by right otherwise; when it replaces, the sentinel that triggered
\* the replacement is the one message of right that is not stored.
C33_MergeRule ==
    pc = "merged" =>
        LET left == prev.messages
            right == update
            replaces == right # <<>> /\ IsSentinel(right[1])
        IN /\ right = <<>> => messages = left
           /\ replaces =>
                /\ Len(messages) = Len(right) - 1
                /\ \A j \in 1..Len(messages) : messages[j] = right[j + 1]
                /\ Sentinels(messages) = Sentinels(right) - 1
           /\ right # <<>> /\ ~replaces =>
                /\ Len(messages) = Len(left) + Len(right)
                /\ \A j \in 1..Len(left) : messages[j] = left[j]
                /\ \A j \in 1..Len(right) : messages[Len(left) + j] = right[j]

\* A replacement whose right argument holds a second sentinel, on a left
\* argument that is not empty.
C33_Witness ==
    /\ pc = "merged"
    /\ prev.messages # <<>>
    /\ Len(update) = 2
    /\ IsSentinel(update[1])
    /\ IsSentinel(update[2])
    /\ messages = <<update[2]>>

\* C34: when the planner is entered at the start of a turn, the history is
\* the system framing followed by the query of that call of invoke, and no
\* Plan and no Intent of an earlier turn is in the state.
C34_FreshTurn ==
    pc = "planner" /\ trace = <<>> =>
        /\ messages = <<system_prompt, human_query>>
        /\ plan = NoPlan
        /\ scratch = [intent |-> NoIntent]

\* C35: when the executor is entered from the researcher or the summarizer,
\* the history has at most SummarizeThreshold messages, and exactly three
\* when the summarizer ran.
C35_BoundedAtExecutorEntry ==
    pc = "executor" /\ trace # <<>> /\ Last(trace) \in {"researcher", "summarizer"} =>
        /\ Len(messages) <= SummarizeThreshold
        /\ Last(trace) = "summarizer" => Len(messages) = 3

\* C36: in a turn that reached END the planner was visited once and first,
\* the finalizer once and last, and the critic once for each step of the Plan.
C36_VisitsPerTurn ==
    pc = "END" =>
        /\ Count(trace, "planner") = 1
        /\ trace[1] = "planner"
        /\ Count(trace, "finalizer") = 1
        /\ Last(trace) = "finalizer"
        /\ Count(trace, "critic") = Len(plan.steps)

\* C37: whenever need-tools is evaluated the history is not empty and its
\* last message is the response of the executor visit that has just
\* completed, a message that is nowhere else in the history.
C37_DecisionOnFreshResponse ==
    pc = "need_tools" =>
        /\ messages # <<>>
        /\ Last(trace) = "executor"
        /\ Last(messages).type = "ai"
        /\ Last(messages).content = "response"
        /\ Last(messages).id = visits
        /\ \A j \in 1..(Len(messages) - 1) : messages[j] # Last(messages)

\* need-tools is evaluated after a tool round: the history holds an older
\* response and the results of its requests before the fresh response.
C37_Witness ==
    /\ pc = "need_tools"
    /\ Count(trace, "tools") >= 1
    /\ Count(trace, "executor") >= 2
    /\ \E j \in 1..(Len(messages) - 1) : messages[j].type = "tool"
    /\ Len(Last(messages).tool_calls) > 0

\* C38: on every entry to the researcher the cursor of the Plan is below the
\* number of its steps, and every researcher visit has read a step and
\* called the oracle on it.
C38_ResearcherHasStep ==
    /\ pc = "researcher" => plan.current_step < Len(plan.steps)
    /\ AfterResearcher =>
         /\ prev.plan.current_step < Len(prev.plan.steps)
         /\ error = "none" => scratch.intent.goal # "Ninguno"

\* The items of a sequence of add calls, one after the other.
RECURSIVE AllItems(_)
AllItems(calls) ==
    IF calls = <<>> THEN <<>> ELSE calls[1].items \o AllItems(Tail(calls))

\* C39: a call of add_tracks_to_playlist with n URIs that returned has issued
\* ceil(n / 100) add calls of 1 to 100 items each, whose items one after the
\* other are the URIs given, in their order; it reports tracks_added = n; and
\* with a start position p the k-th call (counted from 0) was issued at
\* position p + 100 * k, without one every call was issued without position.
C39_AddInBatches ==
    spotify.pc = "returned" =>
        LET n == Len(spotify.track_uris)
            calls == spotify.calls
        IN /\ Len(calls) = (n + PlaylistBatch - 1) \div PlaylistBatch
           /\ \A k \in 1..Len(calls) :
                /\ Len(calls[k].items) \in 1..PlaylistBatch
                /\ calls[k].playlist_id = spotify.result.playlist_id
                /\ calls[k].position
                     = IF spotify.position = None THEN None
                       ELSE SomeInt(spotify.position.value + PlaylistBatch * (k - 1))
           /\ AllItems(calls) = spotify.track_uris
           /\ spotify.result.tracks_added = n

\* A call with two full batches and one more URI, from position 1, has
\* returned after three add calls.
C39_Witness ==
    /\ spotify.pc = "returned"
    /\ Len(spotify.track_uris) = 2 * PlaylistBatch + 1
    /\ spotify.position = SomeInt(1)
    /\ Len(spotify.calls) = 3
    /\ Len(spotify.calls[3].items) = 1
    /\ spotify.calls[3].position = SomeInt(2 * PlaylistBatch + 1)

====
